---- MODULE Spec2Model ----
(***************************************************************************)
(* Loan application pipeline: the gateway (loan-api), the Decision Service *)
(* (approver) and the Status Notifier (loan-api background consumer),      *)
(* together with the cache-backed session store of the gateway.            *)
(***************************************************************************)
EXTENDS Integers, Sequences, FiniteSets, TLC

\* ------------------------------------------------------------------------
\* Bounds of the model
\* ------------------------------------------------------------------------
MaxCalls == 2

UserIds == {"u1", "u2"}
Passwords == {"p", "q"}
\* the (user_id, password) pairs login is called with: u1 with either
\* credential, u2 as the other user
LoginInputs == {<<"u1", "p">>, <<"u1", "q">>, <<"u2", "p">>}
Calls == 1..MaxCalls
\* every login call draws at most one token
Tokens == 1..MaxCalls
\* Cookie(None): no session cookie was sent
NoToken == 0
\* a cookie value that login never issued (uuid4 values are not guessable)
BogusToken == MaxCalls + 1

VARIABLES
    users,        \* cache keys user:<user_id>  -> decoded JSON object
    sessions,     \* cache keys session:<token> -> user_id
    nextToken,    \* number of uuid4 tokens drawn so far by login
    call,         \* the login handler instances: position, inputs, response
    lastResp,     \* the response of the request that completed last
    loggedOut,    \* history: the issued tokens a completed logout was given
    expired,      \* history: the tokens whose session key expired
    nshards,      \* number of shards of each of the two streams
    reqLog,       \* stream loan_submitted: shard -> records
    statusLog,    \* stream loan_status: shard -> records
    loanCache,    \* cache keys loan:<id> -> decoded JSON object
    nextId,       \* number of uuid4 loan ids drawn so far by submit
    returned,     \* history: the loan ids submit answered with
    manual,       \* number of manual /approve and /deny posts so far
    loop,         \* the two consumer tasks: position and locals
    delivered,    \* history: per task and shard, the messages handed to the handler
    subs,         \* the open /events connections: topic and lines received
    published,    \* history: per loan id, the number of successful broadcasts
    pubAttempts,  \* history: the number of broadcast publish calls made
    webhooks,     \* history: the admin-dashboard posts made
    errors,       \* number of faults injected so far
    submitCall    \* the /submit handler instance that runs step by step

authVars == <<users, sessions, nextToken, call, lastResp, loggedOut, expired>>

pipeVars == <<nshards, reqLog, statusLog, loanCache, nextId, returned, manual,
              loop, delivered, subs, published, pubAttempts, webhooks, errors,
              submitCall>>

vars == <<authVars, pipeVars>>

\* ------------------------------------------------------------------------
\* Cache and JSON helpers
\* ------------------------------------------------------------------------
\* dict.pop(key, None)
Pop(d, k) == [f \in (DOMAIN d) \ {k} |-> d[f]]

\* dict[key] = value
Put(d, k, v) == [f \in (DOMAIN d) \cup {k} |-> IF f = k THEN v ELSE d[f]]

\* redis_client.delete(key)
Del(d, k) == [f \in (DOMAIN d) \ {k} |-> d[f]]

Unauthorized == [status |-> 401, body |-> <<>>]

Ok(b) == [status |-> 200, body |-> b]

IdleCall == [pc |-> "idle", user_id |-> "", password |-> "",
             user_obj |-> <<>>, status |-> 0, body |-> <<>>, token |-> NoToken]

\* ------------------------------------------------------------------------
\* get_current_user (the authenticate dependency) and /profile
\* ------------------------------------------------------------------------
GetCurrentUserNoUserCheck(session_token) ==
    IF session_token = NoToken THEN Unauthorized
    ELSE IF session_token \notin DOMAIN sessions THEN Unauthorized
    ELSE LET user_id == sessions[session_token] IN
         IF user_id \in DOMAIN users
         THEN Ok(Put(Pop(users[user_id], "password"), "user_id", user_id))
         ELSE Ok([user_id |-> user_id])

GetCurrentUser(session_token) ==
    IF session_token = NoToken THEN Unauthorized
    ELSE IF session_token \notin DOMAIN sessions THEN Unauthorized
    ELSE LET user_id == sessions[session_token] IN
         IF user_id \notin DOMAIN users THEN Unauthorized
         ELSE Ok(Put(Pop(users[user_id], "password"), "user_id", user_id))

Profile(session_token) ==
    /\ lastResp' = [op |-> "profile"]
                       @@ GetCurrentUser(session_token)
    /\ UNCHANGED <<users, sessions, nextToken, call, loggedOut, expired, pipeVars>>

\* ------------------------------------------------------------------------
\* /login: cache get, then (for a new user) cache set, then session set
\* ------------------------------------------------------------------------
LoginGetNoCheck(c, user_id, password) ==
    /\ call[c].pc = "idle"
    /\ \A d \in Calls : d < c => call[d].pc # "idle"
    /\ LET found == user_id \in DOMAIN users
           start == [call[c] EXCEPT !.user_id = user_id, !.password = password]
       IN  IF found
           THEN /\ call' = [call EXCEPT ![c] = [start EXCEPT
                               !.pc = "set_session", !.user_obj = users[user_id]]]
                /\ UNCHANGED lastResp
           ELSE /\ call' = [call EXCEPT ![c] = [start EXCEPT
                               !.pc = "set_user",
                               !.user_obj = [user_id |-> user_id, password |-> password]]]
                /\ UNCHANGED lastResp
    /\ UNCHANGED <<users, sessions, nextToken, loggedOut, expired, pipeVars>>

LoginGet(c, user_id, password) ==
    /\ call[c].pc = "idle"
    \* handler instances are numbered in the order they start
    /\ \A d \in Calls : d < c => call[d].pc # "idle"
    /\ LET found == user_id \in DOMAIN users
           start == [call[c] EXCEPT !.user_id = user_id, !.password = password]
       IN  IF found
           THEN IF users[user_id]["password"] # password
                THEN /\ call' = [call EXCEPT ![c] = [start EXCEPT
                                    !.pc = "done", !.status = 401]]
                     /\ lastResp' = [op |-> "login"] @@ Unauthorized
                ELSE /\ call' = [call EXCEPT ![c] = [start EXCEPT
                                    !.pc = "set_session", !.user_obj = users[user_id]]]
                     /\ UNCHANGED lastResp
           ELSE /\ call' = [call EXCEPT ![c] = [start EXCEPT
                               !.pc = "set_user",
                               !.user_obj = [user_id |-> user_id, password |-> password]]]
                /\ UNCHANGED lastResp
    /\ UNCHANGED <<users, sessions, nextToken, loggedOut, expired, pipeVars>>

LoginSetUser(c) ==
    /\ call[c].pc = "set_user"
    /\ users' = Put(users, call[c].user_id, call[c].user_obj)
    /\ call' = [call EXCEPT ![c].pc = "set_session"]
    /\ UNCHANGED <<sessions, nextToken, lastResp, loggedOut, expired, pipeVars>>

LoginSetSession(c) ==
    /\ call[c].pc = "set_session"
    /\ LET token == nextToken + 1
           body == Put(Pop(call[c].user_obj, "password"), "user_id", call[c].user_id)
       IN  /\ nextToken' = token
           /\ sessions' = Put(sessions, token, call[c].user_id)
           /\ call' = [call EXCEPT ![c] = [@ EXCEPT !.pc = "done", !.status = 200,
                                             !.body = body, !.token = token]]
           /\ lastResp' = [op |-> "login"] @@ Ok(body)
    /\ UNCHANGED <<users, loggedOut, expired, pipeVars>>

\* ------------------------------------------------------------------------
\* /logout
\* ------------------------------------------------------------------------
LogoutWholeUser(session_token) ==
    /\ IF session_token # NoToken /\ session_token \in DOMAIN sessions
       THEN sessions' = [t \in {x \in DOMAIN sessions :
                                   sessions[x] # sessions[session_token]}
                            |-> sessions[t]]
       ELSE UNCHANGED sessions
    /\ loggedOut' = loggedOut \cup ({session_token} \cap Tokens)
    /\ lastResp' = [op |-> "logout"]
                       @@ Ok([logged_out |-> TRUE])
    /\ UNCHANGED <<users, nextToken, call, expired, pipeVars>>

Logout(session_token) ==
    /\ IF session_token # NoToken
       THEN sessions' = Del(sessions, session_token)
       ELSE UNCHANGED sessions
    /\ loggedOut' = loggedOut \cup ({session_token} \cap Tokens)
    /\ lastResp' = [op |-> "logout"]
                       @@ Ok([logged_out |-> TRUE])
    /\ UNCHANGED <<users, nextToken, call, expired, pipeVars>>

\* ------------------------------------------------------------------------
\* The cache itself: a session key expires (ex=3600); a user key, which has
\* no expiry, is lost only when the cache drops it (no durability is assumed)
\* ------------------------------------------------------------------------
ExpireSession(t) ==
    /\ t \in DOMAIN sessions
    /\ sessions' = Del(sessions, t)
    /\ expired' = expired \cup {t}
    /\ UNCHANGED <<users, nextToken, call, lastResp, loggedOut, pipeVars>>

EvictUser(u) ==
    /\ u \in DOMAIN users
    /\ users' = Del(users, u)
    /\ UNCHANGED <<sessions, nextToken, call, lastResp, loggedOut, expired, pipeVars>>

\* ------------------------------------------------------------------------
\* The two streams and the consumer tasks
\* ------------------------------------------------------------------------
MaxShards == 2
MaxSubmit == 2
\* the loans submitted where the Status Notifier is checked on its own
MaxSnapshots == 1
MaxManual == 1
MaxErrors == 1
MaxSubs == 1

\* get_records(..., Limit=25)
Limit == 25

\* the records some other producer appends to a stream
MaxForeign == 1

Loops == {"approver", "notifier"}
Subs == 1..MaxSubs
\* a loan id that submit never returned
BogusId == MaxSubmit + 1

\* the shard a partition key hashes to
ShardOf(loan_id) == ((loan_id - 1) % nshards) + 1

\* the /submit handler before it is called
IdleSubmit == [pc |-> "idle", data |-> <<>>, cache |-> "none"]

\* put_record(stream, payload, partition_key): the stream after the append
PutRecord(log, payload, partition_key) ==
    [log EXCEPT ![ShardOf(partition_key)] = Append(@, payload)]

\* the stream a task consumes
Log(L) == IF L = "approver" THEN reqLog ELSE statusLog

NoCursor == [shard |-> 0, pos |-> 0]

\* dict.get(key): None (here "") for a missing key
Get(d, k) == IF k \in DOMAIN d THEN d[k] ELSE ""

Min(a, b) == IF a < b THEN a ELSE b

\* stop: stop_event is set; at: where the task was when it was cancelled
NewLoop == [pc |-> "start", iterators |-> <<>>, next_iterators |-> <<>>, i |-> 0,
            records |-> <<>>, next_it |-> NoCursor, loan_data |-> <<>>,
            stop |-> FALSE, at |-> ""]

\* get_shard_iterators: a TRIM_HORIZON iterator for every shard of the stream
GetShardIterators == [s \in 1..nshards |-> [shard |-> s, pos |-> 0]]

\* line 52 (70): the first discovery; lines 54-57 (72-75): sleep, re-discover
Discover(L) ==
    /\ \/ loop[L].pc = "start"
       \/ loop[L].pc = "rediscover"
    /\ loop' = [loop EXCEPT ![L].iterators = GetShardIterators, ![L].pc = "while"]
    /\ UNCHANGED <<authVars, submitCall, nshards, reqLog, statusLog, loanCache, nextId, returned,
                   manual, delivered, subs, published, pubAttempts, webhooks, errors>>

\* lines 53-58 (71-76): the loop test, the empty-list test, a new cycle
While(L) ==
    /\ loop[L].pc = "while"
    /\ loop' = [loop EXCEPT ![L] =
                  IF loop[L].stop THEN [@ EXCEPT !.pc = "exit"]
                  ELSE IF loop[L].iterators = <<>> THEN [@ EXCEPT !.pc = "rediscover"]
                  ELSE [@ EXCEPT !.pc = "for", !.next_iterators = <<>>, !.i = 1]]
    /\ UNCHANGED <<authVars, submitCall, nshards, reqLog, statusLog, loanCache, nextId, returned,
                   manual, delivered, subs, published, pubAttempts, webhooks, errors>>

\* lines 83-84 (101-102): the for loop is over (or was left by break)
EndCycle(L) ==
    /\ loop[L].pc = "for"
    /\ \/ loop[L].i > Len(loop[L].iterators)
       \/ loop[L].stop
    /\ loop' = [loop EXCEPT ![L] = [@ EXCEPT !.pc = "while",
                                      !.iterators = loop[L].next_iterators,
                                      !.next_iterators = <<>>, !.i = 0]]
    /\ UNCHANGED <<authVars, submitCall, nshards, reqLog, statusLog, loanCache, nextId, returned,
                   manual, delivered, subs, published, pubAttempts, webhooks, errors>>

\* the task after the handler returned: the next record, or lines 80-82 (98-100)
AfterHandler(lp) ==
    IF Tail(lp.records) = <<>>
    THEN [lp EXCEPT !.pc = "for", !.records = <<>>, !.loan_data = <<>>,
                    !.next_iterators = Append(@, lp.next_it),
                    !.next_it = NoCursor, !.i = @ + 1]
    ELSE [lp EXCEPT !.pc = "records", !.records = Tail(@), !.loan_data = <<>>]

\* the task after get_records failed with a ClientError: lines 66-71 (84-89)
AfterPollError(lp) == [lp EXCEPT !.i = @ + 1]

\* a task that handed a batch to the handler newest record first
PollNewestFirst(L) ==
    /\ loop[L].pc = "for"
    /\ loop[L].i <= Len(loop[L].iterators)
    /\ ~loop[L].stop
    /\ LET it == loop[L].iterators[loop[L].i]
           log == Log(L)[it.shard]
           batch == SubSeq(log, it.pos + 1, Min(it.pos + Limit, Len(log)))
           recs == [j \in 1..Len(batch) |-> batch[Len(batch) + 1 - j]]
           nxt == [shard |-> it.shard, pos |-> it.pos + Len(recs)]
       IN  loop' = [loop EXCEPT ![L] =
                      IF recs = <<>>
                      THEN [@ EXCEPT !.next_iterators = Append(@, nxt), !.i = @ + 1]
                      ELSE [@ EXCEPT !.pc = "records", !.records = recs,
                                     !.next_it = nxt]]
    /\ UNCHANGED <<authVars, submitCall, nshards, reqLog, statusLog, loanCache, nextId,
                   returned, manual, delivered, subs, published, pubAttempts, webhooks,
                   errors>>

\* lines 62-65 (80-83): get_records on the iterator succeeds
Poll(L) ==
    /\ loop[L].pc = "for"
    /\ loop[L].i <= Len(loop[L].iterators)
    /\ ~loop[L].stop
    /\ LET it == loop[L].iterators[loop[L].i]
           log == Log(L)[it.shard]
           recs == SubSeq(log, it.pos + 1, Min(it.pos + Limit, Len(log)))
           nxt == [shard |-> it.shard, pos |-> it.pos + Len(recs)]
       IN  loop' = [loop EXCEPT ![L] =
                      IF recs = <<>>
                      THEN [@ EXCEPT !.next_iterators = Append(@, nxt), !.i = @ + 1]
                      ELSE [@ EXCEPT !.pc = "records", !.records = recs,
                                     !.next_it = nxt]]
    /\ UNCHANGED <<authVars, submitCall, nshards, reqLog, statusLog, loanCache, nextId, returned,
                   manual, delivered, subs, published, pubAttempts, webhooks, errors>>

\* lines 66-71 (84-89): get_records raises a ClientError, whatever its code
PollErrorCodes == {"ExpiredIteratorException",
                   "ProvisionedThroughputExceededException", "InternalFailure"}

PollError(L, code) ==
    /\ loop[L].pc = "for"
    /\ loop[L].i <= Len(loop[L].iterators)
    /\ ~loop[L].stop
    /\ errors < MaxErrors
    /\ errors' = errors + 1
    /\ loop' = [loop EXCEPT ![L] = AfterPollError(@)]
    /\ UNCHANGED <<authVars, submitCall, nshards, reqLog, statusLog, loanCache, nextId, returned,
                   manual, delivered, subs, published, pubAttempts, webhooks>>

\* lines 62-65 (80-83): get_records raises an error that is no ClientError (the
\* endpoint cannot be reached, the read times out); nothing catches it
PollTransportError(L) ==
    /\ loop[L].pc = "for"
    /\ loop[L].i <= Len(loop[L].iterators)
    /\ ~loop[L].stop
    /\ errors < MaxErrors
    /\ errors' = errors + 1
    /\ loop' = [loop EXCEPT ![L].pc = "dead"]
    /\ UNCHANGED <<authVars, submitCall, nshards, reqLog, statusLog, loanCache, nextId,
                   returned, manual, delivered, subs, published, pubAttempts, webhooks>>

\* line 52 or 56 (70 or 74): get_shard_iterators raises (list_shards answers
\* ResourceNotFoundException for a stream that is not provisioned yet);
\* nothing catches it
DiscoverFails(L) ==
    /\ \/ loop[L].pc = "start"
       \/ loop[L].pc = "rediscover"
    /\ errors < MaxErrors
    /\ errors' = errors + 1
    /\ loop' = [loop EXCEPT ![L].pc = "dead"]
    /\ UNCHANGED <<authVars, submitCall, nshards, reqLog, statusLog, loanCache, nextId,
                   returned, manual, delivered, subs, published, pubAttempts, webhooks>>

\* a lifespan that set stop_event and left the task to notice it
ShutdownStopOnly(L) ==
    /\ ~loop[L].stop
    /\ loop' = [loop EXCEPT ![L].stop = TRUE]
    /\ UNCHANGED <<authVars, submitCall, nshards, reqLog, statusLog, loanCache, nextId,
                   returned, manual, delivered, subs, published, pubAttempts, webhooks,
                   errors>>

\* lifespan, lines 110-114 (146-150): stop_event.set() and, with no await in
\* between, consumer_task.cancel(): a task that has not ended gets
\* CancelledError at the await it is suspended in, and nothing catches it
Shutdown(L) ==
    /\ ~loop[L].stop
    /\ loop' = [loop EXCEPT ![L] =
                  IF loop[L].pc \in {"exit", "dead"}
                  THEN [@ EXCEPT !.stop = TRUE]
                  ELSE [@ EXCEPT !.stop = TRUE, !.pc = "cancelled", !.at = loop[L].pc]]
    /\ UNCHANGED <<authVars, submitCall, nshards, reqLog, statusLog, loanCache, nextId,
                   returned, manual, delivered, subs, published, pubAttempts, webhooks,
                   errors>>

\* ------------------------------------------------------------------------
\* Decision Service: auto_approve, /approve and /deny
\* ------------------------------------------------------------------------
Decision(loan_id, status) == [id |-> loan_id, status |-> status]

\* payload.get("id") is set and truthy
HasId(message) == "id" \in DOMAIN message

\* Record payloads that are not what the services write. A payload that is no
\* JSON object is written as a record with the field raw, which says what
\* json.loads makes of the bytes: nothing (it raises), an array, or a string,
\* whose text in turn is the JSON of a number or is no JSON at all; the
\* last one is an object without an id.
Malformed == {[raw |-> "undecodable"], [raw |-> "array"],
              [raw |-> "string", inner |-> "number"],
              [raw |-> "string", inner |-> "text"],
              [loan_type |-> "refinance"]}

\* json.loads(record["Data"]) returns: line 75 (93)
Decodable(record) == Get(record, "raw") # "undecodable"

\* auto_approve, lines 89-98: a str message is decoded a second time (91-92)
\* and .get is called on the result, which is a number here
GetRaises(message) ==
    Get(message, "raw") = "string" /\ Get(message, "inner") = "number"

\* the decisions of the loan_status stream that carry loan_id
DecisionsOf(loan_id) ==
    UNION {{<<s, j>> : j \in {k \in 1..Len(statusLog[s]) :
                              HasId(statusLog[s][k]) /\ statusLog[s][k].id = loan_id}} :
             s \in 1..nshards}

\* a Decision Service that decided an id only once
AutoApproveOnce(message) ==
    IF HasId(message) /\ DecisionsOf(message["id"]) = {}
    THEN PutRecord(statusLog, Decision(message["id"], "approved"), message["id"])
    ELSE statusLog

\* lines 98-100: the state of the loan_status stream after auto_approve(message)
AutoApprove(message) ==
    IF HasId(message)
    THEN PutRecord(statusLog, Decision(message["id"], "approved"), message["id"])
    ELSE statusLog

\* line 78 with lines 87-100: the handler call, put_record succeeds
HandleRequest ==
    /\ loop["approver"].pc = "records"
    /\ Decodable(Head(loop["approver"].records))
    /\ ~GetRaises(Head(loop["approver"].records))
    /\ LET message == Head(loop["approver"].records)
           shard == loop["approver"].next_it.shard
       IN  /\ delivered' = [delivered EXCEPT !["approver"][shard] = Append(@, message)]
           /\ statusLog' = AutoApprove(message)
    /\ loop' = [loop EXCEPT !["approver"] = AfterHandler(@)]
    /\ UNCHANGED <<authVars, submitCall, nshards, reqLog, loanCache, nextId, returned,
                   manual, subs, published, pubAttempts, webhooks, errors>>

\* line 100: put_record raises; nothing catches it, the task ends
HandleRequestFails ==
    /\ loop["approver"].pc = "records"
    /\ HasId(Head(loop["approver"].records))
    /\ errors < MaxErrors
    /\ errors' = errors + 1
    /\ LET message == Head(loop["approver"].records)
           shard == loop["approver"].next_it.shard
       IN  delivered' = [delivered EXCEPT !["approver"][shard] = Append(@, message)]
    /\ loop' = [loop EXCEPT !["approver"].pc = "dead"]
    /\ UNCHANGED <<authVars, submitCall, nshards, reqLog, statusLog, loanCache, nextId, returned,
                   manual, subs, published, pubAttempts, webhooks>>

\* line 98: payload.get raises AttributeError on a payload that is no dict;
\* nothing catches it, the task ends
HandleRequestGetRaises ==
    /\ loop["approver"].pc = "records"
    /\ GetRaises(Head(loop["approver"].records))
    /\ LET message == Head(loop["approver"].records)
           shard == loop["approver"].next_it.shard
       IN  delivered' = [delivered EXCEPT !["approver"][shard] = Append(@, message)]
    /\ loop' = [loop EXCEPT !["approver"].pc = "dead"]
    /\ UNCHANGED <<authVars, submitCall, nshards, reqLog, statusLog, loanCache, nextId,
                   returned, manual, subs, published, pubAttempts, webhooks, errors>>

\* lines 74-77 (92-95): json.loads raises on the record, which is passed over
SkipUndecodable(L) ==
    /\ loop[L].pc = "records"
    /\ ~Decodable(Head(loop[L].records))
    /\ loop' = [loop EXCEPT ![L] = AfterHandler(@)]
    /\ UNCHANGED <<authVars, submitCall, nshards, reqLog, statusLog, loanCache, nextId,
                   returned, manual, delivered, subs, published, pubAttempts, webhooks,
                   errors>>

\* some other producer appends a record to a shard of one of the streams
PutForeign(L, s, record) ==
    /\ s \in 1..nshards
    /\ Cardinality({p \in UNION {{<<L2, s2, j>> : j \in 1..Len(Log(L2)[s2])} :
                                    L2 \in Loops, s2 \in 1..nshards} :
                      Log(p[1])[p[2]][p[3]] \in Malformed}) < MaxForeign
    /\ IF L = "approver"
       THEN reqLog' = [reqLog EXCEPT ![s] = Append(@, record)] /\ UNCHANGED statusLog
       ELSE statusLog' = [statusLog EXCEPT ![s] = Append(@, record)] /\ UNCHANGED reqLog
    /\ UNCHANGED <<authVars, submitCall, nshards, loanCache, nextId, returned, manual,
                   loop, delivered, subs, published, pubAttempts, webhooks, errors>>

\* /approve/{loan_id} and /deny/{loan_id}
ManualPost(loan_id, status) ==
    /\ manual < MaxManual
    /\ manual' = manual + 1
    /\ statusLog' = PutRecord(statusLog, Decision(loan_id, status), loan_id)
    /\ UNCHANGED <<authVars, submitCall, nshards, reqLog, loanCache, nextId, returned,
                   loop, delivered, subs, published, pubAttempts, webhooks, errors>>

\* ------------------------------------------------------------------------
\* Gateway: /submit
\* ------------------------------------------------------------------------
\* lines 181-193: the event built from the form and the session's user
SubmitData(form, user, loan_id) ==
    LET d1 == Put(form, "id", loan_id)
        d2 == Put(d1, "submitted_by", user["user_id"])
    IN  IF "user_id" \notin DOMAIN d2 THEN Put(d2, "user_id", user["user_id"]) ELSE d2

Submit(session_token, form) ==
    /\ nextId < MaxSubmit
    /\ GetCurrentUser(session_token).status = 200
    /\ LET loan_id == nextId + 1
           data == SubmitData(form, GetCurrentUser(session_token).body, loan_id)
       IN  /\ nextId' = loan_id
           /\ loanCache' = Put(loanCache, loan_id, data)
           /\ reqLog' = PutRecord(reqLog, data, loan_id)
           /\ returned' = returned \cup {loan_id}
    /\ UNCHANGED <<authVars, submitCall, nshards, statusLog, manual, loop, delivered, subs,
                   published, pubAttempts, webhooks, errors>>

\* the same handler step by step. Lines 179-198: the dependency, the event and
\* the snapshot write, whose failure is printed and otherwise ignored
SubmitCache(session_token, form, ok) ==
    /\ submitCall.pc \in {"idle", "done"}
    /\ nextId < MaxSubmit
    /\ IF GetCurrentUser(session_token).status # 200
       THEN /\ lastResp' = [op |-> "submit"] @@ Unauthorized
            /\ submitCall' = IdleSubmit
            /\ UNCHANGED <<nextId, loanCache, errors>>
       ELSE LET loan_id == nextId + 1
                data == SubmitData(form, GetCurrentUser(session_token).body, loan_id)
            IN  /\ nextId' = loan_id
                /\ IF ok
                   THEN loanCache' = Put(loanCache, loan_id, data) /\ UNCHANGED errors
                   ELSE /\ errors < MaxErrors
                        /\ errors' = errors + 1
                        /\ UNCHANGED loanCache
                /\ submitCall' = [pc |-> "put", data |-> data,
                                  cache |-> IF ok THEN "ok" ELSE "failed"]
                /\ UNCHANGED lastResp
    /\ UNCHANGED <<users, sessions, nextToken, call, loggedOut, expired, nshards,
                   reqLog, statusLog, returned, manual, loop, delivered, subs,
                   published, pubAttempts, webhooks>>

\* a gateway that answered with the id whether or not the event was published
SubmitPutAlwaysId(ok) ==
    /\ submitCall.pc = "put"
    /\ LET data == submitCall.data IN
       /\ IF ok
          THEN reqLog' = PutRecord(reqLog, data, data["id"]) /\ UNCHANGED errors
          ELSE /\ errors < MaxErrors
               /\ errors' = errors + 1
               /\ UNCHANGED reqLog
       /\ returned' = returned \cup {data["id"]}
       /\ lastResp' = [op |-> "submit"] @@ Ok([id |-> data["id"]])
    /\ submitCall' = [submitCall EXCEPT !.pc = "done"]
    /\ UNCHANGED <<users, sessions, nextToken, call, loggedOut, expired, nshards,
                   statusLog, loanCache, nextId, manual, loop, delivered, subs,
                   published, pubAttempts, webhooks>>

\* lines 199-205: the publish; its failure is answered as {"error": ...}
SubmitPut(ok) ==
    /\ submitCall.pc = "put"
    /\ LET data == submitCall.data IN
       IF ok
       THEN /\ reqLog' = PutRecord(reqLog, data, data["id"])
            /\ returned' = returned \cup {data["id"]}
            /\ lastResp' = [op |-> "submit"] @@ Ok([id |-> data["id"]])
            /\ UNCHANGED errors
       ELSE /\ errors < MaxErrors
            /\ errors' = errors + 1
            /\ lastResp' = [op |-> "submit"] @@ Ok([error |-> "put_record failed"])
            /\ UNCHANGED <<reqLog, returned>>
    /\ submitCall' = [submitCall EXCEPT !.pc = "done"]
    /\ UNCHANGED <<users, sessions, nextToken, call, loggedOut, expired, nshards,
                   statusLog, loanCache, nextId, manual, loop, delivered, subs,
                   published, pubAttempts, webhooks>>

\* the snapshot key was written with ex=86400
ExpireLoan(loan_id) ==
    /\ loan_id \in DOMAIN loanCache
    /\ loanCache' = Del(loanCache, loan_id)
    /\ UNCHANGED <<authVars, submitCall, nshards, reqLog, statusLog, nextId, returned, manual,
                   loop, delivered, subs, published, pubAttempts, webhooks, errors>>

\* ------------------------------------------------------------------------
\* Broadcast channel and /events
\* ------------------------------------------------------------------------
NewSub == [state |-> "new", topic |-> 0, received |-> <<>>, base |-> 0, upto |-> 0]

\* redis publish(channel, payload): every open subscription of the channel
\* gets the payload; nothing is kept for anyone else
Publish(channel, payload) ==
    [k \in Subs |->
        IF subs[k].state = "open" /\ subs[k].topic = channel
        THEN [subs[k] EXCEPT !.received = Append(@, payload)]
        ELSE subs[k]]

\* a channel that handed a new subscriber what was published before
EventsWithBacklog(k, loan_id) ==
    /\ subs[k].state = "new"
    /\ \A j \in Subs : j < k => subs[j].state # "new"
    /\ subs' = [subs EXCEPT ![k] =
                  [state |-> "open", topic |-> loan_id,
                   received |-> [j \in 1..published[loan_id] |->
                                    Decision(loan_id, "approved")],
                   base |-> published[loan_id], upto |-> 0]]
    /\ UNCHANGED <<authVars, submitCall, nshards, reqLog, statusLog, loanCache, nextId, returned,
                   manual, loop, delivered, published, pubAttempts, webhooks, errors>>

\* /events/{loan_id}: subscribe, then stream every message of the channel
Events(k, loan_id) ==
    /\ subs[k].state = "new"
    \* connections are numbered in the order they open
    /\ \A j \in Subs : j < k => subs[j].state # "new"
    /\ subs' = [subs EXCEPT ![k] =
                  [state |-> "open", topic |-> loan_id, received |-> <<>>,
                   base |-> published[loan_id], upto |-> 0]]
    /\ UNCHANGED <<authVars, submitCall, nshards, reqLog, statusLog, loanCache, nextId, returned,
                   manual, loop, delivered, published, pubAttempts, webhooks, errors>>

\* the client disconnects: lines 248-249
EventsClose(k) ==
    /\ subs[k].state = "open"
    /\ subs' = [subs EXCEPT ![k] = [@ EXCEPT !.state = "closed",
                                      !.upto = published[subs[k].topic]]]
    /\ UNCHANGED <<authVars, submitCall, nshards, reqLog, statusLog, loanCache, nextId, returned,
                   manual, loop, delivered, published, pubAttempts, webhooks, errors>>

\* ------------------------------------------------------------------------
\* Status Notifier: handle_status_message
\* ------------------------------------------------------------------------
\* a notifier that broadcast only the decisions whose snapshot is cached
HandleStatusPublishIfCached ==
    /\ loop["notifier"].pc = "records"
    /\ LET message == Head(loop["notifier"].records)
           shard == loop["notifier"].next_it.shard
       IN  /\ delivered' = [delivered EXCEPT !["notifier"][shard] = Append(@, message)]
           /\ IF HasId(message) /\ message["id"] \in DOMAIN loanCache
              THEN /\ pubAttempts' = pubAttempts + 1
                   /\ subs' = Publish(message["id"], message)
                   /\ published' = [published EXCEPT ![message["id"]] = @ + 1]
                   /\ loop' = [loop EXCEPT !["notifier"] =
                                 IF message["status"] = "approved"
                                 THEN [@ EXCEPT !.pc = "h_cache"]
                                 ELSE AfterHandler(@)]
              ELSE /\ loop' = [loop EXCEPT !["notifier"] = AfterHandler(@)]
                   /\ UNCHANGED <<subs, published, pubAttempts>>
    /\ UNCHANGED <<authVars, submitCall, nshards, reqLog, statusLog, loanCache, nextId, returned,
                   manual, webhooks, errors>>

\* lines 106-110: the guard and the broadcast, which succeeds
HandleStatusPublish ==
    /\ loop["notifier"].pc = "records"
    /\ Decodable(Head(loop["notifier"].records))
    /\ LET message == Head(loop["notifier"].records)
           shard == loop["notifier"].next_it.shard
       IN  /\ delivered' = [delivered EXCEPT !["notifier"][shard] = Append(@, message)]
           /\ IF HasId(message)
              THEN /\ pubAttempts' = pubAttempts + 1
                   /\ subs' = Publish(message["id"], message)
                   /\ published' = [published EXCEPT ![message["id"]] = @ + 1]
                   /\ loop' = [loop EXCEPT !["notifier"] =
                                 IF message["status"] = "approved"
                                 THEN [@ EXCEPT !.pc = "h_cache"]
                                 ELSE AfterHandler(@)]
              ELSE /\ loop' = [loop EXCEPT !["notifier"] = AfterHandler(@)]
                   /\ UNCHANGED <<subs, published, pubAttempts>>
    /\ UNCHANGED <<authVars, submitCall, nshards, reqLog, statusLog, loanCache, nextId, returned,
                   manual, webhooks, errors>>

\* line 109: redis publish raises; nothing catches it, the task ends
HandleStatusPublishFails ==
    /\ loop["notifier"].pc = "records"
    /\ HasId(Head(loop["notifier"].records))
    /\ errors < MaxErrors
    /\ errors' = errors + 1
    /\ pubAttempts' = pubAttempts + 1
    /\ LET message == Head(loop["notifier"].records)
           shard == loop["notifier"].next_it.shard
       IN  delivered' = [delivered EXCEPT !["notifier"][shard] = Append(@, message)]
    /\ loop' = [loop EXCEPT !["notifier"].pc = "dead"]
    /\ UNCHANGED <<authVars, submitCall, nshards, reqLog, statusLog, loanCache, nextId, returned,
                   manual, subs, published, webhooks>>

\* lines 115-120: the snapshot carries a loan type and a user identity
Enrichable(loan_data) ==
    /\ Get(loan_data, "loan_type") # ""
    /\ (Get(loan_data, "user_id") # "" \/ Get(loan_data, "UserID") # "")

\* a notifier that posted every cached snapshot, whatever it carries
HandleStatusCacheAnySnapshot ==
    /\ loop["notifier"].pc = "h_cache"
    /\ LET loan_id == Head(loop["notifier"].records)["id"]
       IN  loop' = [loop EXCEPT !["notifier"] =
                      IF loan_id \in DOMAIN loanCache
                      THEN [@ EXCEPT !.pc = "h_post", !.loan_data = loanCache[loan_id]]
                      ELSE AfterHandler(@)]
    /\ UNCHANGED <<authVars, submitCall, nshards, reqLog, statusLog, loanCache, nextId, returned,
                   manual, delivered, subs, published, pubAttempts, webhooks, errors>>

\* lines 112-120: the snapshot is read from the cache
HandleStatusCache ==
    /\ loop["notifier"].pc = "h_cache"
    /\ LET loan_id == Head(loop["notifier"].records)["id"]
       IN  loop' = [loop EXCEPT !["notifier"] =
                      IF loan_id \in DOMAIN loanCache /\ Enrichable(loanCache[loan_id])
                      THEN [@ EXCEPT !.pc = "h_post", !.loan_data = loanCache[loan_id]]
                      ELSE AfterHandler(@)]
    /\ UNCHANGED <<authVars, submitCall, nshards, reqLog, statusLog, loanCache, nextId, returned,
                   manual, delivered, subs, published, pubAttempts, webhooks, errors>>

\* line 112 raises: caught at line 135
HandleStatusCacheFails ==
    /\ loop["notifier"].pc = "h_cache"
    /\ errors < MaxErrors
    /\ errors' = errors + 1
    /\ loop' = [loop EXCEPT !["notifier"] = AfterHandler(@)]
    /\ UNCHANGED <<authVars, submitCall, nshards, reqLog, statusLog, loanCache, nextId, returned,
                   manual, delivered, subs, published, pubAttempts, webhooks>>

\* what the admin-dashboard answers or how the post fails
PostOutcomes == {"2xx", "4xx", "exception"}

\* lines 121-136: the post to the admin-dashboard; a status >= 400 is printed,
\* an exception is caught at line 135
HandleStatusPost(outcome) ==
    /\ loop["notifier"].pc = "h_post"
    /\ IF outcome = "2xx" THEN UNCHANGED errors
       ELSE errors < MaxErrors /\ errors' = errors + 1
    /\ LET loan_data == loop["notifier"].loan_data
           user_id == IF Get(loan_data, "user_id") # ""
                      THEN Get(loan_data, "user_id") ELSE Get(loan_data, "UserID")
       IN  webhooks' = Append(webhooks,
                              [loan_id |-> loan_data["id"], user_id |-> user_id,
                               opted |-> Get(loan_data, "loan_type"),
                               outcome |-> outcome])
    /\ loop' = [loop EXCEPT !["notifier"] = AfterHandler(@)]
    /\ UNCHANGED <<authVars, submitCall, nshards, reqLog, statusLog, loanCache, nextId, returned,
                   manual, delivered, subs, published, pubAttempts>>

\* ------------------------------------------------------------------------
\* The session store on its own
\* ------------------------------------------------------------------------
\* what a client can send as its session cookie
Cookies == (1..nextToken) \cup {NoToken, BogusToken}

\* nothing submitted, both consumer tasks created and not yet run
PipeIdle(n) ==
    /\ nshards = n
    /\ reqLog = [s \in 1..n |-> <<>>]
    /\ statusLog = [s \in 1..n |-> <<>>]
    /\ loanCache = <<>>
    /\ nextId = 0
    /\ returned = {}
    /\ manual = 0
    /\ loop = [L \in Loops |-> NewLoop]
    /\ delivered = [L \in Loops |-> [s \in 1..n |-> <<>>]]
    /\ subs = [k \in Subs |-> NewSub]
    /\ published = [c \in 1..BogusId |-> 0]
    /\ pubAttempts = 0
    /\ webhooks = <<>>
    /\ errors = 0
    /\ submitCall = IdleSubmit

AuthInit ==
    /\ users = <<>>
    /\ sessions = <<>>
    /\ nextToken = 0
    /\ call = [c \in Calls |-> IdleCall]
    /\ lastResp = [op |-> "none", status |-> 0, body |-> <<>>]
    /\ loggedOut = {}
    /\ expired = {}
    /\ PipeIdle(1)

AuthNext ==
    \/ \E c \in Calls, i \in LoginInputs : LoginGet(c, i[1], i[2])
    \/ \E c \in Calls : LoginSetUser(c)
    \/ \E c \in Calls : LoginSetSession(c)
    \/ \E t \in Cookies : Logout(t)
    \/ \E t \in Cookies : Profile(t)
    \/ \E t \in Tokens : ExpireSession(t)
    \/ \E u \in UserIds : EvictUser(u)

SpecAuth == AuthInit /\ [][AuthNext]_vars

\* the session store while no key expires or is dropped
LoginNext ==
    \/ \E c \in Calls, i \in LoginInputs : LoginGet(c, i[1], i[2])
    \/ \E c \in Calls : LoginSetUser(c)
    \/ \E c \in Calls : LoginSetSession(c)
    \/ \E t \in Cookies : Logout(t)
    \/ \E t \in Cookies : Profile(t)

SpecLogin == AuthInit /\ [][LoginNext]_vars

\* ------------------------------------------------------------------------
\* The pipeline, with u1 logged in
\* ------------------------------------------------------------------------
\* the session store after login("u1", "p") answered with token 1
LoggedIn ==
    /\ users = [u \in {"u1"} |-> [user_id |-> "u1", password |-> "p"]]
    /\ sessions = [t \in {1} |-> "u1"]
    /\ nextToken = 1
    /\ call = [c \in Calls |->
                 IF c = 1
                 THEN [pc |-> "done", user_id |-> "u1", password |-> "p",
                       user_obj |-> [user_id |-> "u1", password |-> "p"],
                       status |-> 200, body |-> [user_id |-> "u1"], token |-> 1]
                 ELSE IdleCall]
    /\ lastResp = [op |-> "login"] @@ Ok([user_id |-> "u1"])
    /\ loggedOut = {}
    /\ expired = {}

PipeInit == LoggedIn /\ \E n \in 1..MaxShards : PipeIdle(n)

\* the same with one shard per stream
OneShardInit == LoggedIn /\ PipeIdle(1)

\* the forms /submit is given: a loan type or none, and no user_id field, an
\* empty one or the id of a user other than the caller
PlainForm == [loan_type |-> "refinance"]

Forms == {PlainForm, <<>>, [loan_type |-> "refinance", user_id |-> ""],
          [loan_type |-> "refinance", user_id |-> "u2"]}

\* the ids an operator or a client can name: the ones returned, or some other
KnownIds == (1..nextId) \cup {BogusId}

\* the gateway's /submit on its own, with its two outgoing calls failing or not
SubmitNext ==
    \/ \E t \in Cookies, form \in Forms, ok \in BOOLEAN : SubmitCache(t, form, ok)
    \/ \E ok \in BOOLEAN : SubmitPut(ok)

SpecSubmit == PipeInit /\ [][SubmitNext]_vars

\* the Decision Service with the gateway feeding it
ApproverNext ==
    \/ \E t \in DOMAIN sessions : Submit(t, PlainForm)
    \/ Discover("approver")
    \/ While("approver")
    \/ Poll("approver")
    \/ \E code \in PollErrorCodes : PollError("approver", code)
    \/ EndCycle("approver")
    \/ HandleRequest
    \/ HandleRequestFails

SpecApprover == PipeInit /\ [][ApproverNext]_vars

\* the Decision Service task where the stream fails in every way it can and
\* the handler never does
PollNext ==
    \/ \E t \in DOMAIN sessions : Submit(t, PlainForm)
    \/ Discover("approver")
    \/ DiscoverFails("approver")
    \/ While("approver")
    \/ Poll("approver")
    \/ \E code \in PollErrorCodes : PollError("approver", code)
    \/ PollTransportError("approver")
    \/ EndCycle("approver")
    \/ HandleRequest

SpecPoll == PipeInit /\ [][PollNext]_vars

\* the same, where the only faults are throughput-limit and iterator-expiry
\* errors of get_records, the task is never cancelled and the event loop
\* keeps running it
ApproverStep ==
    \/ Discover("approver")
    \/ While("approver")
    \/ Poll("approver")
    \/ EndCycle("approver")
    \/ HandleRequest

FairApproverNext ==
    \/ \E t \in DOMAIN sessions : Submit(t, PlainForm)
    \/ \E code \in {"ExpiredIteratorException",
                     "ProvisionedThroughputExceededException"} :
          PollError("approver", code)
    \/ ApproverStep

FairApprover == PipeInit /\ [][FairApproverNext]_vars /\ WF_vars(ApproverStep)

\* the Status Notifier and its enrichment step, on a one-shard stream: the
\* gateway writes snapshots, an operator posts the decisions
NotifierNext ==
    \/ \E t \in DOMAIN sessions, form \in Forms :
          nextId < MaxSnapshots /\ Submit(t, form)
    \/ \E c \in KnownIds, st \in {"approved", "denied"} : ManualPost(c, st)
    \/ \E c \in DOMAIN loanCache : ExpireLoan(c)
    \/ Discover("notifier")
    \/ While("notifier")
    \/ Poll("notifier")
    \/ \E code \in PollErrorCodes : PollError("notifier", code)
    \/ EndCycle("notifier")
    \/ HandleStatusPublish
    \/ HandleStatusPublishFails
    \/ HandleStatusCache
    \/ HandleStatusCacheFails
    \/ \E o \in PostOutcomes : HandleStatusPost(o)

SpecNotifier == OneShardInit /\ [][NotifierNext]_vars

\* the two services running and shut down, with no fault
ShutdownNext ==
    \/ \E t \in DOMAIN sessions : nextId < MaxSnapshots /\ Submit(t, PlainForm)
    \/ \E L \in Loops : Discover(L)
    \/ \E L \in Loops : While(L)
    \/ \E L \in Loops : Poll(L)
    \/ \E L \in Loops : EndCycle(L)
    \/ HandleRequest
    \/ HandleStatusPublish
    \/ HandleStatusCache
    \/ HandleStatusPost("2xx")
    \/ \E L \in Loops : Shutdown(L)

SpecShutdown == OneShardInit /\ [][ShutdownNext]_vars

\* the two services, with no fault, reading streams that hold records of
\* some other producer besides their own
MalformedNext ==
    \/ \E t \in DOMAIN sessions : nextId < MaxSnapshots /\ Submit(t, PlainForm)
    \/ \E L \in Loops, s \in 1..MaxShards, m \in Malformed : PutForeign(L, s, m)
    \/ \E L \in Loops : Discover(L)
    \/ \E L \in Loops : While(L)
    \/ \E L \in Loops : Poll(L)
    \/ \E L \in Loops : EndCycle(L)
    \/ \E L \in Loops : SkipUndecodable(L)
    \/ HandleRequest
    \/ HandleRequestGetRaises
    \/ HandleStatusPublish
    \/ HandleStatusCache
    \/ HandleStatusPost("2xx")

SpecMalformed == OneShardInit /\ [][MalformedNext]_vars

\* the Status Notifier and the /events connections, on a one-shard stream:
\* an operator posts decisions for a loan id and for some other id
EventTopics == {1, BogusId}

EventsNext ==
    \/ \E c \in EventTopics, st \in {"approved", "denied"} : ManualPost(c, st)
    \/ \E k \in Subs, c \in EventTopics : Events(k, c)
    \/ \E k \in Subs : EventsClose(k)
    \/ Discover("notifier")
    \/ While("notifier")
    \/ Poll("notifier")
    \/ \E code \in PollErrorCodes : PollError("notifier", code)
    \/ EndCycle("notifier")
    \/ HandleStatusPublish
    \/ HandleStatusPublishFails
    \/ HandleStatusCache

SpecEvents == OneShardInit /\ [][EventsNext]_vars

\* gateway, Decision Service, Status Notifier, an operator and a client
Next ==
    \/ \E t \in DOMAIN sessions : Submit(t, PlainForm)
    \/ \E c \in KnownIds : ManualPost(c, "approved")
    \/ \E k \in Subs, c \in KnownIds : Events(k, c)
    \/ \E L \in Loops : Discover(L)
    \/ \E L \in Loops : While(L)
    \/ \E L \in Loops : Poll(L)
    \/ \E L \in Loops, code \in PollErrorCodes : PollError(L, code)
    \/ \E L \in Loops : EndCycle(L)
    \/ HandleRequest
    \/ HandleStatusPublish
    \/ HandleStatusCache
    \/ \E o \in PostOutcomes : HandleStatusPost(o)

Init == PipeInit

Spec == Init /\ [][Next]_vars

\* ------------------------------------------------------------------------
\* Session store: claims
\* ------------------------------------------------------------------------
\* the user a token was issued to, from the login call that drew it
IssuedTo(t) ==
    call[CHOOSE c \in Calls : call[c].token = t /\ call[c].status = 200].user_id

Issued(t) == \E c \in Calls : call[c].token = t /\ call[c].status = 200

\* C8: a login that finds no record of user_id creates the record with the
\* supplied credential and then stores a fresh token -> user_id; a login that
\* finds a record whose credential differs from the supplied one answers 401,
\* stores no token and leaves the user records as they are, in that step and
\* in every later one (so a login of u1 with "q" after u1 was registered with
\* "p" fails as long as "p" is what is stored).
C8_Step(c) ==
    LET u == call'[c].user_id
        p == call'[c].password
    IN  /\ (call[c].pc = "idle" /\ call'[c].pc # "idle") =>
              /\ (u \notin DOMAIN users) =>
                     /\ call'[c].pc = "set_user"
                     /\ call'[c].user_obj = [user_id |-> u, password |-> p]
              /\ (u \in DOMAIN users /\ users[u]["password"] # p) =>
                     /\ call'[c].pc = "done"
                     /\ call'[c].status = 401
                     /\ call'[c].token = NoToken
                     /\ lastResp' = [op |-> "login", status |-> 401, body |-> <<>>]
                     /\ sessions' = sessions
                     /\ users' = users
                     /\ nextToken' = nextToken
        /\ (call[c].pc = "set_user" /\ call'[c].pc # "set_user") =>
              /\ users' = Put(users, u, [user_id |-> u, password |-> p])
              /\ call'[c].pc = "set_session"
        /\ (call[c].pc = "set_session" /\ call'[c].pc # "set_session") =>
              /\ call'[c].pc = "done"
              /\ call'[c].status = 200
              /\ call'[c].token \notin DOMAIN sessions
              /\ ~Issued(call'[c].token)
              /\ call'[c].token \notin loggedOut \cup expired
              /\ sessions' = Put(sessions, call'[c].token, u)
        /\ (call[c].pc = "done") => call'[c] = call[c]

C8_Login == [][\A c \in Calls : C8_Step(c)]_vars

\* u1 was registered with "p" by one login, and a later login of u1 with
\* another credential was refused
C8_Witness ==
    \E c, d \in Calls :
        /\ call[c].pc = "done" /\ call[c].status = 200
        /\ call[c].user_id = "u1" /\ call[c].password = "p"
        /\ call[c].token \in DOMAIN sessions
        /\ call[d].pc = "done" /\ call[d].status = 401
        /\ call[d].user_id = "u1" /\ call[d].password = "q"
        /\ "u1" \in DOMAIN users /\ users["u1"]["password"] = "p"

\* C9: authenticate answers 401 for a missing cookie, a token that was never
\* issued, one that expired (or was logged out) and one whose user record is
\* gone; for every other token it answers with exactly the identity of the
\* user the token was issued to; and no response of login, authenticate or
\* profile carries the password field.
C9_Authenticate ==
    /\ \A t \in Tokens \cup {NoToken, BogusToken} :
          LET r == GetCurrentUser(t)
              live == /\ Issued(t)
                      /\ t \notin expired
                      /\ t \notin loggedOut
                      /\ IssuedTo(t) \in DOMAIN users
          IN  IF live
              THEN r = [status |-> 200, body |-> [user_id |-> IssuedTo(t)]]
              ELSE r.status = 401 /\ r.body = <<>>
    /\ lastResp.op \in {"login", "profile"} =>
          "password" \notin DOMAIN lastResp.body
    /\ \A c \in Calls : "password" \notin DOMAIN call[c].body

\* profile was refused for a token whose session is stored but whose user
\* record is gone, while another token authenticates
C9_Witness ==
    /\ lastResp.op = "profile" /\ lastResp.status = 401
    /\ \E t \in DOMAIN sessions : sessions[t] \notin DOMAIN users
    /\ \E t \in DOMAIN sessions : GetCurrentUser(t).status = 200

\* C10: logout(token) deletes the session key of that token and nothing else:
\* the user records and every other token's authentication are as before; with
\* no cookie or an unknown token it changes no key and still answers 200; and
\* a token that was logged out never authenticates again.
C10_Step(t) ==
    Logout(t) =>
        /\ users' = users
        /\ DOMAIN sessions' = (DOMAIN sessions) \ {t}
        /\ \A x \in DOMAIN sessions' : sessions'[x] = sessions[x]
        /\ (t = NoToken \/ t \notin DOMAIN sessions) => sessions' = sessions
        /\ \A x \in (DOMAIN sessions) \ {t} :
              GetCurrentUser(x)' = GetCurrentUser(x)
        /\ lastResp' = [op |-> "logout", status |-> 200,
                        body |-> [logged_out |-> TRUE]]

C10_Logout ==
    /\ [][\A t \in Tokens \cup {NoToken, BogusToken} : C10_Step(t)]_vars
    /\ [](\A t \in loggedOut : GetCurrentUser(t).status = 401)

\* a token of u1 was logged out while another token of u1 still authenticates
C10_Witness ==
    \E t \in loggedOut, x \in DOMAIN sessions :
        /\ Issued(t) /\ IssuedTo(t) = "u1"
        /\ Issued(x) /\ IssuedTo(x) = "u1"
        /\ x # t
        /\ GetCurrentUser(x).status = 200
        /\ lastResp.op = "logout"

\* ------------------------------------------------------------------------
\* Pipeline: claims
\* ------------------------------------------------------------------------
\* the positions of the messages with loan_id that a task handed to its handler
DeliveriesOf(L, loan_id) ==
    UNION {{<<s, j>> : j \in {k \in 1..Len(delivered[L][s]) :
                                 /\ HasId(delivered[L][s][k])
                                 /\ delivered[L][s][k]["id"] = loan_id}} :
             s \in 1..nshards}

\* the number of messages a task handed to its handler
Handled(L) == Cardinality(UNION {{<<s, j>> : j \in 1..Len(delivered[L][s])} :
                                   s \in 1..nshards})

Sum(f, S) == Cardinality(UNION {{<<c, j>> : j \in 1..f[c]} : c \in S})

Broadcasts == Sum(published, 1..BogusId)

IsPrefix(a, b) == Len(a) <= Len(b) /\ a = SubSeq(b, 1, Len(a))

\* C1: a client that streams /events/c1 from before the first broadcast on c1
\* gets the payload {id: c1, status: approved} and never a second message, and
\* has exactly one once an operator posted and the Status Notifier has
\* broadcast every decision of c1 that is in the stream.
C1_ExactlyOne ==
    \A k \in Subs :
        (subs[k].state = "open" /\ subs[k].topic \in returned /\ subs[k].base = 0) =>
            LET c == subs[k].topic IN
            /\ Len(subs[k].received) <= 1
            /\ \A j \in 1..Len(subs[k].received) :
                  subs[k].received[j] = Decision(c, "approved")
            /\ (manual >= 1 /\ DecisionsOf(c) # {}
                   /\ published[c] >= Cardinality(DecisionsOf(c)))
                 => Len(subs[k].received) = 1

\* C2: a partition whose poll failed is polled again in the next cycle (at
\* every cycle boundary the task holds a cursor for every shard), and what
\* the handler was given for a shard is the shard's records in order, each
\* once.
C2_RetriedNoSkipNoDup ==
    /\ loop["approver"].pc = "while" =>
          {loop["approver"].iterators[j].shard :
              j \in 1..Len(loop["approver"].iterators)} = 1..nshards
    /\ \A s \in 1..nshards : IsPrefix(delivered["approver"][s], reqLog[s])

\* C3: every record appended to a shard of loan_submitted is eventually
\* handed to auto_approve.
C3_AtLeastOnce ==
    \A s \in 1..MaxShards, j \in 1..MaxSubmit :
        (s <= nshards /\ Len(reqLog[s]) >= j)
            ~> (s <= nshards /\ Len(reqLog[s]) >= j
                  /\ \E k \in 1..Len(delivered["approver"][s]) :
                        delivered["approver"][s][k] = reqLog[s][j])

\* C4: every loan id that submit returned eventually has a decision in
\* loan_status.
C4_EventualDecision ==
    \A c \in 1..MaxSubmit : (c \in returned) ~> (DecisionsOf(c) # {})

\* C5: every decision the Status Notifier handles has its broadcast
\* attempted, before and whatever the enrichment step does: the publish calls
\* are as many as the handled decisions, the enrichment steps are reached only
\* after the broadcast of that decision, and the task ends only when a
\* publish itself fails, never because of a missing or unusable snapshot, a
\* failing cache read or a failing admin post.
C5_FanOut ==
    /\ pubAttempts = Handled("notifier")
    /\ loop["notifier"].pc \in {"h_cache", "h_post"} =>
          published[Head(loop["notifier"].records)["id"]] >= 1
    /\ loop["notifier"].pc # "dead" => Broadcasts = pubAttempts
    /\ loop["notifier"].pc = "dead" => Broadcasts = pubAttempts - 1

\* the approval of loan 1 was broadcast and handled to the end after the
\* snapshot of loan 1 had expired; no admin post was made
C5_Witness ==
    /\ 1 \in returned
    /\ 1 \notin DOMAIN loanCache
    /\ published[1] >= 1
    /\ \E j \in 1..Len(delivered["notifier"][1]) :
          delivered["notifier"][1][j] = Decision(1, "approved")
    /\ loop["notifier"].pc = "for"
    /\ webhooks = <<>>

C19_Registration ==
    /\ \A c, d \in Calls :
          (call[c].status = 200 /\ call[d].status = 200
              /\ call[c].user_id = call[d].user_id)
            => call[c].password = call[d].password
    /\ \A c \in Calls :
          (call[c].pc = "set_session" /\ call[c].user_id \in DOMAIN users)
            => users[call[c].user_id]["password"] = call[c].password
    /\ \A t \in DOMAIN sessions :
          sessions[t] \in DOMAIN users
            => \E c \in Calls : /\ call[c].token = t
                                /\ call[c].password = users[sessions[t]]["password"]

\* the admin posts made for loan_id
WebhooksOf(loan_id) == {j \in 1..Len(webhooks) : webhooks[j].loan_id = loan_id}

\* C17: an admin post is made only for an approved decision whose snapshot was
\* read from the cache and carries a loan type and a user identity, which the
\* post carries; the posts made for an id are at most as many as the approved
\* decisions of that id the notifier has handled, so a denied decision, a
\* missing snapshot or a snapshot without one of the fields gives no post and
\* a handled decision gives at most one.
C17_WebhookGuard ==
    /\ \A j \in 1..Len(webhooks) :
          /\ webhooks[j].loan_id \in returned
          /\ webhooks[j].opted # ""
          /\ webhooks[j].user_id # ""
    /\ \A c \in 1..BogusId :
          Cardinality(WebhooksOf(c))
            <= Cardinality({p \in DeliveriesOf("notifier", c) :
                              delivered["notifier"][p[1]][p[2]]["status"] = "approved"})
    /\ loop["notifier"].pc \in {"h_cache", "h_post"} =>
          Head(loop["notifier"].records)["status"] = "approved"
    /\ loop["notifier"].pc = "h_post" => Enrichable(loop["notifier"].loan_data)

\* an approved decision of loan 1 was handled to the end and gave one post
C17_Witness ==
    /\ Cardinality(WebhooksOf(1)) = 1
    /\ loop["notifier"].pc = "for"
    /\ Cardinality(DeliveriesOf("notifier", 1)) = 1

\* C20: the user_id of the snapshot, of the request event and of every admin
\* post of a loan is the user_id of the session that submitted it (or is
\* empty), whatever fields the form carried.
C20_Authorship ==
    /\ \A c \in DOMAIN loanCache :
          Get(loanCache[c], "user_id") \in {"", loanCache[c]["submitted_by"]}
    /\ \A s \in 1..nshards : \A j \in 1..Len(reqLog[s]) :
          /\ reqLog[s][j]["submitted_by"] = "u1"
          /\ Get(reqLog[s][j], "user_id") \in {"", reqLog[s][j]["submitted_by"]}
    /\ \A j \in 1..Len(webhooks) : webhooks[j].user_id = "u1"

\* the request events of the loan_submitted stream that carry loan_id
RequestsOf(loan_id) ==
    UNION {{<<s, j>> : j \in {k \in 1..Len(reqLog[s]) :
                              HasId(reqLog[s][k]) /\ reqLog[s][k]["id"] = loan_id}} :
             s \in 1..nshards}

\* C11: when submit is about to publish, the snapshot write was already
\* attempted and nothing of this id is in the stream yet; a snapshot write
\* that failed leaves the call going on to the publish; the answer of a call
\* whose publish failed is an error without an id and the answer of a call
\* whose publish succeeded is the id; and every id that was returned has
\* exactly one event in loan_submitted, every other id none.
C11_SubmitOrder ==
    /\ submitCall.pc = "put" =>
          /\ submitCall.cache \in {"ok", "failed"}
          /\ submitCall.cache = "ok" <=> submitCall.data["id"] \in DOMAIN loanCache
          /\ submitCall.cache = "ok" => loanCache[submitCall.data["id"]] = submitCall.data
          /\ RequestsOf(submitCall.data["id"]) = {}
          /\ submitCall.data["id"] \notin returned
    /\ submitCall.pc = "done" =>
          /\ lastResp.op = "submit"
          /\ lastResp.status = 200
          /\ \/ /\ lastResp.body = [id |-> submitCall.data["id"]]
                /\ submitCall.data["id"] \in returned
             \/ /\ DOMAIN lastResp.body = {"error"}
                /\ submitCall.data["id"] \notin returned
    /\ \A c \in 1..MaxSubmit :
          Cardinality(RequestsOf(c)) = IF c \in returned THEN 1 ELSE 0

\* the snapshot write of loan 1 failed and the call went on: the event was
\* published and the id returned
C11_Witness ==
    /\ submitCall.pc = "done"
    /\ submitCall.cache = "failed"
    /\ submitCall.data["id"] = 1
    /\ 1 \in returned
    /\ 1 \notin DOMAIN loanCache
    /\ lastResp.body = [id |-> 1]

\* C12: no failure of a poll or of the shard discovery ends a consumer task:
\* after a failed poll the task goes on with the next iterator of the cycle,
\* after a failed discovery it discovers again.
C12_PollContained ==
    /\ loop["approver"].pc # "dead"
    /\ loop["approver"].pc = "for" =>
          loop["approver"].i <= Len(loop["approver"].iterators) + 1

\* C13: a handler call that fails does not end the consumer task that made
\* it: the task is still at one of the steps of its loop.
C13_HandlerContained ==
    \A L \in Loops :
        loop[L].pc \in {"start", "rediscover", "while", "for", "records",
                        "h_cache", "h_post"}

\* C14: what the Decision Service task handed to its handler from a shard are
\* records of that shard, and before any delivery of a record every earlier
\* record of the shard has been delivered; while records of a batch are
\* still to be handled they are the rest of the batch in stream order, the
\* shard's cursor is the one the batch was read with and the next cursor is
\* not yet among the cursors of the next cycle.
C14_InOrder ==
    /\ \A s \in 1..nshards :
          LET d == delivered["approver"][s] IN
          /\ \A k \in 1..Len(d) : \E p \in 1..Len(reqLog[s]) : reqLog[s][p] = d[k]
          /\ \A p, q \in 1..Len(reqLog[s]) :
                p < q => \A kq \in 1..Len(d) :
                            d[kq] = reqLog[s][q]
                              => \E kp \in 1..(kq - 1) : d[kp] = reqLog[s][p]
    /\ loop["approver"].pc = "records" =>
          LET lp == loop["approver"]
              it == lp.iterators[lp.i]
          IN  /\ it.shard = lp.next_it.shard
              /\ lp.records # <<>>
              /\ lp.records = SubSeq(reqLog[it.shard],
                                     lp.next_it.pos - Len(lp.records) + 1,
                                     lp.next_it.pos)
              /\ it.pos <= lp.next_it.pos - Len(lp.records)
              /\ \A j \in 1..Len(lp.next_iterators) :
                    lp.next_iterators[j].shard # it.shard

\* two requests of one shard were delivered in order and, after an error and
\* a new discovery, delivered again in order
C14_Witness ==
    /\ nshards = 1
    /\ Len(reqLog[1]) = 2
    /\ delivered["approver"][1] = reqLog[1] \o reqLog[1]

\* C15: once stop_event is set the consumer task has ended (cancelled, or
\* ended before), and from then on it polls nothing, hands nothing to its
\* handler, replaces no cursor, and its handler appends, broadcasts and posts
\* nothing.
C15_Cancellation ==
    /\ [](\A L \in Loops : loop[L].stop => loop[L].pc \in {"cancelled", "exit", "dead"})
    /\ [][\A L \in Loops :
            loop[L].stop => /\ loop'[L] = loop[L]
                            /\ delivered'[L] = delivered[L]]_vars
    /\ [][loop["approver"].stop => statusLog' = statusLog]_vars
    /\ [][loop["notifier"].stop =>
            /\ pubAttempts' = pubAttempts
            /\ published' = published
            /\ webhooks' = webhooks]_vars

\* the Decision Service was shut down with a polled batch still to be handled
\* while the Status Notifier runs on
C15_Witness ==
    /\ loop["approver"].stop
    /\ loop["approver"].pc = "cancelled"
    /\ loop["approver"].at = "records"
    /\ loop["approver"].records # <<>>
    /\ ~loop["notifier"].stop

\* C16: a shutdown never ends a consumer task inside a handler call: a
\* Status Notifier that was cancelled was not between the broadcast of a
\* decision and the end of its enrichment step.
C16_Graceful ==
    \A L \in Loops :
        loop[L].pc = "cancelled" => loop[L].at \notin {"h_cache", "h_post"}

\* C18: a record that is no object with an id ends neither consumer task and
\* gives no decision, no broadcast and no admin post: the decisions in
\* loan_status and the broadcasts are those of submitted loans, one broadcast
\* per delivered decision.
C18_Malformed ==
    /\ \A L \in Loops : loop[L].pc # "dead"
    /\ \A s \in 1..nshards : \A j \in 1..Len(statusLog[s]) :
          statusLog[s][j] \in Malformed \/ statusLog[s][j]["id"] \in returned
    /\ \A c \in 1..BogusId : published[c] > 0 => c \in returned
    /\ pubAttempts = Cardinality(UNION {DeliveriesOf("notifier", c) : c \in returned})
    /\ \A j \in 1..Len(webhooks) : webhooks[j].loan_id \in returned

====
